---- MODULE Spec2Model ----
(***************************************************************************)
(* Verification model of the hybrid retrieval fusion engine                *)
(* (src/src/retrieval/retriever.py, src/src/retrieval/reranker.py) and of  *)
(* the agentic query controller (src/src/rag/agentic_rag.py).              *)
(*                                                                         *)
(* Scores are floats in the source.  The fused RRF scores are modelled as  *)
(* exact fractions <<numerator, denominator>> (denominator > 0), so that   *)
(* sums and ties are decided exactly; scores of the other stages (vector   *)
(* similarity, cross-encoder score) are opaque magnitudes, modelled as     *)
(* small integers.                                                         *)
(***************************************************************************)
EXTENDS Integers, Sequences, FiniteSets, TLC

\* ------------------------------------------------------------------ bounds
\* Number of distinct chunk ids of the corpus.
NumChunks == 3
\* Largest result-count limit handed to the fusion besides "no limit".
MaxTopK == 2
\* Largest score the cross-encoder gives a pair.
MaxCEScore == 2
\* Largest max_iterations an AgenticRAG is constructed with.
MaxIterations == 2
\* Most sub-queries an analysis names, most paraphrases a rewrite gives.
MaxSubQueries == 2
MaxRewrites == 1

\* ------------------------------------------------------- program constants
\* HybridRetriever.__init__ default rrf_k
DefaultRrfK == 60
\* AgenticRAG.__init__ default quality_threshold
DefaultQualityThreshold == 4
\* HybridRetriever.__init__ default alpha (0.5)
DefaultAlpha == <<1, 2>>

Chunks == 1..NumChunks

\* ---------------------------------------------------------------- helpers
Range(s) == {s[i] : i \in DOMAIN s}

Min(a, b) == IF a <= b THEN a ELSE b

\* s[:n] of Python for n >= 0
Take(s, n) == SubSeq(s, 1, Min(n, Len(s)))

\* Exact fractions standing for the float scores of the fusion stage.
FAdd(x, y) == <<x[1] * y[2] + y[1] * x[2], x[2] * y[2]>>
FGt(x, y) == x[1] * y[2] > y[1] * x[2]
FEq(x, y) == x[1] * y[2] = y[1] * x[2]
FZero == <<0, 1>>

\* A Python dict: its keys in insertion order and its values.
EmptyDict == [keys |-> <<>>, val |-> <<>>]
DictHas(d, k) == k \in Range(d.keys)
DictSet(d, k, v) ==
    [keys |-> IF DictHas(d, k) THEN d.keys ELSE Append(d.keys, k),
     val  |-> (k :> v) @@ d.val]

\* SearchResult: the fields the retrieval core reads or writes.  content
\* stands for content, source_file, page_number and metadata, which every
\* stage copies unchanged.
SearchResult(id, c, s) == [chunk_id |-> id, content |-> c, score |-> s]

IdsOf(results) == [i \in DOMAIN results |-> results[i].chunk_id]

\* ------------------------------------------------ HybridRetriever: fusion
\* alpha * (1.0 / (rrf_k + rank + 1)), rank 0-based, weight a fraction
RrfScorePlusTwo(weight, rrf_k, rank) ==
    <<weight[1], weight[2] * (rrf_k + rank + 2)>>
RrfScore(weight, rrf_k, rank) ==
    <<weight[1], weight[2] * (rrf_k + rank + 1)>>

\* 1.0 - alpha
OneMinus(alpha) == <<alpha[2] - alpha[1], alpha[2]>>

\* Body of the first loop: the vector contribution is stored.
VectorStepScoreWeighted(self, st, rank, result) ==
    [scores    |-> DictSet(st.scores, result.chunk_id,
                     <<self.alpha[1] * result.score,
                       self.alpha[2] * (self.rrf_k + rank + 1)>>),
     chunk_map |-> DictSet(st.chunk_map, result.chunk_id, result)]
VectorStep(self, st, rank, result) ==
    [scores    |-> DictSet(st.scores, result.chunk_id,
                           RrfScore(self.alpha, self.rrf_k, rank)),
     chunk_map |-> DictSet(st.chunk_map, result.chunk_id, result)]

\* Body of the second loop: the lexical contribution is added to an
\* existing entry, stored otherwise.
Bm25StepOverwrite(self, st, rank, result) ==
    LET rrf_score == RrfScore(OneMinus(self.alpha), self.rrf_k, rank)
    IN  [scores    |-> DictSet(st.scores, result.chunk_id, rrf_score),
         chunk_map |-> DictSet(st.chunk_map, result.chunk_id, result)]
Bm25StepAlphaWeight(self, st, rank, result) ==
    LET rrf_score == RrfScore(self.alpha, self.rrf_k, rank)
    IN  IF DictHas(st.scores, result.chunk_id)
        THEN [scores    |-> DictSet(st.scores, result.chunk_id,
                              FAdd(st.scores.val[result.chunk_id], rrf_score)),
              chunk_map |-> st.chunk_map]
        ELSE [scores    |-> DictSet(st.scores, result.chunk_id, rrf_score),
              chunk_map |-> DictSet(st.chunk_map, result.chunk_id, result)]
Bm25Step(self, st, rank, result) ==
    LET rrf_score == RrfScore(OneMinus(self.alpha), self.rrf_k, rank)
    IN  IF DictHas(st.scores, result.chunk_id)
        THEN [scores    |-> DictSet(st.scores, result.chunk_id,
                              FAdd(st.scores.val[result.chunk_id], rrf_score)),
              chunk_map |-> st.chunk_map]
        ELSE [scores    |-> DictSet(st.scores, result.chunk_id, rrf_score),
              chunk_map |-> DictSet(st.chunk_map, result.chunk_id, result)]

RECURSIVE VectorLoop(_, _, _, _)
VectorLoop(self, results, rank, st) ==
    IF rank >= Len(results) THEN st
    ELSE VectorLoop(self, results, rank + 1,
                    VectorStep(self, st, rank, results[rank + 1]))

RECURSIVE Bm25Loop(_, _, _, _)
Bm25Loop(self, results, rank, st) ==
    IF rank >= Len(results) THEN st
    ELSE Bm25Loop(self, results, rank + 1,
                  Bm25Step(self, st, rank, results[rank + 1]))

\* sorted(keys, key=scores, reverse=True): Python's sort is stable, also
\* under reverse=True, so an element goes after every element placed before
\* it whose key is greater or equal.
RECURSIVE InsertDesc(_, _, _)
InsertDesc(sorted, x, val) ==
    IF sorted = <<>> THEN <<x>>
    ELSE IF FGt(val[x], val[Head(sorted)]) THEN <<x>> \o sorted
         ELSE <<Head(sorted)>> \o InsertDesc(Tail(sorted), x, val)

RECURSIVE InsertDescBeforeEqual(_, _, _)
InsertDescBeforeEqual(sorted, x, val) ==
    IF sorted = <<>> THEN <<x>>
    ELSE IF ~FGt(val[Head(sorted)], val[x]) THEN <<x>> \o sorted
         ELSE <<Head(sorted)>> \o InsertDescBeforeEqual(Tail(sorted), x, val)

RECURSIVE SortFrom(_, _, _, _)
SortFrom(keys, i, acc, val) ==
    IF i > Len(keys) THEN acc
    ELSE SortFrom(keys, i + 1, InsertDesc(acc, keys[i], val), val)

RECURSIVE SortFromUnstable(_, _, _, _)
SortFromUnstable(keys, i, acc, val) ==
    IF i > Len(keys) THEN acc
    ELSE SortFromUnstable(keys, i + 1, InsertDescBeforeEqual(acc, keys[i], val), val)

Reverse(s) == [i \in 1..Len(s) |-> s[Len(s) + 1 - i]]

SortedIdsTiesReversed(scores) == SortFromUnstable(scores.keys, 1, <<>>, scores.val)
SortedIdsAscending(scores) == Reverse(SortFrom(scores.keys, 1, <<>>, scores.val))
SortedIds(scores) == SortFrom(scores.keys, 1, <<>>, scores.val)

\* The result list: the first top_k sorted ids, each with its fused score.
MergedResults(sorted_ids, st, top_k) ==
    LET cut == Take(sorted_ids, top_k)
    IN  [i \in 1..Len(cut) |->
            SearchResult(st.chunk_map.val[cut[i]].chunk_id,
                         st.chunk_map.val[cut[i]].content,
                         st.scores.val[cut[i]])]

\* HybridRetriever._reciprocal_rank_fusion: the two dicts, the sorted ids
\* and the returned list.
ReciprocalRankFusion(self, vector_results, bm25_results, top_k) ==
    LET st0 == [scores |-> EmptyDict, chunk_map |-> EmptyDict]
        st1 == VectorLoop(self, vector_results, 0, st0)
        st2 == Bm25Loop(self, bm25_results, 0, st1)
        ids == SortedIds(st2.scores)
    IN  [scores |-> st2.scores, sorted_ids |-> ids,
         merged_results |-> MergedResults(ids, st2, top_k)]

\* sorted(range(n), key=scores, reverse=True) over integer scores
SortedIndexesDesc(scores) ==
    SortedIds([keys |-> [i \in 1..Len(scores) |-> i],
               val  |-> [i \in 1..Len(scores) |-> <<scores[i], 1>>]])

\* ------------------------------------------------------------- Reranker
\* len(candidates) <= top_k: the cross-encoder is skipped
ShortCircuitStrict(candidates, top_k) == Len(candidates) < top_k
ShortCircuit(candidates, top_k) == Len(candidates) <= top_k

\* sorted(zip(candidates, scores), key=score, reverse=True), as the order
\* of the candidates' indexes
RerankOrderAscending(scores) == Reverse(SortedIndexesDesc(scores))
RerankOrder(scores) == SortedIndexesDesc(scores)

\* Reranker.rerank.  ce_scores is what the cross-encoder (an external
\* model) answers for the pairs, one score per pair; pairs and
\* predict_calls record what the model was asked.
Rerank(query, candidates, top_k, ce_scores) ==
    IF candidates = <<>>
    THEN [ret |-> <<>>, pairs |-> <<>>, predict_calls |-> 0]
    ELSE IF ShortCircuit(candidates, top_k)
    THEN [ret |-> candidates, pairs |-> <<>>, predict_calls |-> 0]
    ELSE LET pairs == [i \in DOMAIN candidates |-> <<query, candidates[i].content>>]
             ranked == Take(RerankOrder(ce_scores), top_k)
         IN  [ret |-> [i \in 1..Len(ranked) |-> candidates[ranked[i]]],
              pairs |-> pairs, predict_calls |-> 1]

\* ------------------------------------------- HybridRetriever: retrieval
None == "None"

\* vector_store.get_all_chunks(): every chunk the store holds now, as a
\* new list.
GetAllChunks(points) == points

\* self.bm25: None, or a BM25Okapi scorer over the corpus it was built
\* from (get_scores answers one score per document of that corpus).
NoBm25 == [built |-> FALSE, corpus |-> <<>>]
BM25Okapi(tokenized_corpus) == [built |-> TRUE, corpus |-> tokenized_corpus]

\* _build_bm25_index: a snapshot of the store's chunks; no index for an
\* empty store.
BuildBm25Index(all_chunks) ==
    IF all_chunks = <<>>
    THEN [bm25 |-> NoBm25, bm25_chunks |-> <<>>]
    ELSE [bm25 |-> BM25Okapi(all_chunks), bm25_chunks |-> all_chunks]

\* _vector_search: the store answers its `limit` nearest points; ranking
\* is the store's ranking of its points for the query.
VectorSearch(ranking, limit) == Take(ranking, limit)

\* float(s) / (s + 1.0)
NormalizedBm25(s) == <<s, s + 1>>

\* _bm25_search: bm25_scores is what BM25Okapi.get_scores answers, one raw
\* score per indexed chunk.
Bm25SearchTiesReversed(index, bm25_scores, top_k) ==
    IF index.bm25 = NoBm25 THEN <<>>
    ELSE LET top_indices ==
                 Take(SortFromUnstable([i \in DOMAIN bm25_scores |-> i], 1, <<>>,
                                       [i \in DOMAIN bm25_scores |->
                                           <<bm25_scores[i], 1>>]), top_k)
         IN  [i \in 1..Len(top_indices) |->
                 SearchResult(index.bm25_chunks[top_indices[i]],
                              index.bm25_chunks[top_indices[i]],
                              NormalizedBm25(bm25_scores[top_indices[i]]))]
Bm25SearchDropZeros(index, bm25_scores, top_k) ==
    IF index.bm25 = NoBm25 THEN <<>>
    ELSE LET all_indices == SortedIndexesDesc(bm25_scores)
             top_indices == Take(SelectSeq(all_indices,
                                           LAMBDA i : bm25_scores[i] > 0), top_k)
         IN  [i \in 1..Len(top_indices) |->
                 SearchResult(index.bm25_chunks[top_indices[i]],
                              index.bm25_chunks[top_indices[i]],
                              NormalizedBm25(bm25_scores[top_indices[i]]))]
Bm25Search(index, bm25_scores, top_k) ==
    IF index.bm25 = NoBm25 THEN <<>>
    ELSE LET top_indices == Take(SortedIndexesDesc(bm25_scores), top_k)
         IN  [i \in 1..Len(top_indices) |->
                 SearchResult(index.bm25_chunks[top_indices[i]],
                              index.bm25_chunks[top_indices[i]],
                              NormalizedBm25(bm25_scores[top_indices[i]]))]

\* _bm25_search, statement by statement, for a reader that runs while
\* another thread writes the retriever's fields.  r is the reader's frame:
\* pc, top_k, the scorer get_scores was called on, bm25_scores,
\* top_indices, the loop position and the results so far.
ReaderIdle ==
    [pc |-> "idle", top_k |-> 0, scorer |-> NoBm25, bm25_scores |-> <<>>,
     top_indices |-> <<>>, results |-> <<>>]

\* if self.bm25 is None: return []
ReaderCheck(r, index, top_k) ==
    IF index.bm25 = NoBm25
    THEN [r EXCEPT !.pc = "returned", !.top_k = top_k]
    ELSE [r EXCEPT !.pc = "get_scores", !.top_k = top_k]

\* bm25_scores = self.bm25.get_scores(query_tokens) and the sort: self.bm25
\* is read again (None has no get_scores: AttributeError)
ReaderGetScores(r, index, bm25_scores) ==
    IF index.bm25 = NoBm25
    THEN [r EXCEPT !.pc = "raised"]
    ELSE [r EXCEPT !.pc = "loop", !.scorer = index.bm25,
                   !.bm25_scores = bm25_scores,
                   !.top_indices = Take(SortedIndexesDesc(bm25_scores), r.top_k)]

\* one turn of `for idx in top_indices`: chunk = self.bm25_chunks[idx]
\* (IndexError past the list's end), then results.append(...)
ReaderLoopTurn(r, index) ==
    LET n == Len(r.results) + 1 IN
    IF n > Len(r.top_indices) THEN [r EXCEPT !.pc = "returned"]
    ELSE IF r.top_indices[n] > Len(index.bm25_chunks)
         THEN [r EXCEPT !.pc = "raised"]
         ELSE [r EXCEPT !.results =
                  Append(@, SearchResult(index.bm25_chunks[r.top_indices[n]],
                                         index.bm25_chunks[r.top_indices[n]],
                                         NormalizedBm25(r.bm25_scores[r.top_indices[n]])))]

\* fetch_multiplier = 4 if self.use_rerank else 2
FetchMultiplier(self) == IF self.use_rerank THEN 4 ELSE 2

\* merged_results[:top_k]
FinalWithoutRerankUncut(merged_results, top_k) == merged_results
FinalWithoutRerank(merged_results, top_k) == Take(merged_results, top_k)

\* retrieve's calls in the order they start and return: each statement is
\* a synchronous call, over before the next statement runs.
RetrieveTrace(self) ==
    <<"_vector_search.call", "_vector_search.return",
      "_bm25_search.call", "_bm25_search.return",
      "_reciprocal_rank_fusion.call", "_reciprocal_rank_fusion.return">>
    \o (IF self.use_rerank THEN <<"rerank.call", "rerank.return">> ELSE <<>>)

\* HybridRetriever.retrieve, with what it computed on the way.
HybridRetrieve(self, index, query, top_k, ranking, bm25_scores, ce_scores) ==
    LET vector_results == VectorSearch(ranking, top_k * 2)
        bm25_results == Bm25Search(index, bm25_scores, top_k * 2)
        merged_results ==
            ReciprocalRankFusion(self, vector_results, bm25_results,
                                 top_k * FetchMultiplier(self)).merged_results
        reranked == Rerank(query, merged_results, top_k,
                           [i \in DOMAIN merged_results |-> ce_scores[i]])
    IN  [top_k |-> top_k,
         trace |-> RetrieveTrace(self),
         vector_results |-> vector_results,
         bm25_results |-> bm25_results,
         merged_results |-> merged_results,
         predict_calls |-> IF self.use_rerank THEN reranked.predict_calls ELSE 0,
         results |-> IF self.use_rerank
                     THEN reranked.ret
                     ELSE FinalWithoutRerank(merged_results, top_k)]

\* --------------------------------------------------- MultiQueryRetriever
\* generate_queries: the original query only
GenerateQueries(original_query) == <<original_query>>

\* retrieve, one result of one search: a new chunk_id is stored, a known
\* one replaced by a strictly higher score.
MultiMerge(all_results, result) ==
    IF ~DictHas(all_results, result.chunk_id)
    THEN DictSet(all_results, result.chunk_id, result)
    ELSE IF result.score > all_results.val[result.chunk_id].score
         THEN DictSet(all_results, result.chunk_id, result)
         ELSE all_results

RECURSIVE MultiMergeLoop(_, _, _)
MultiMergeLoop(all_results, results, i) ==
    IF i > Len(results) THEN all_results
    ELSE MultiMergeLoop(MultiMerge(all_results, results[i]), results, i + 1)

\* for q in queries: search, then merge its results
RECURSIVE MultiQueryLoop(_, _, _)
MultiQueryLoop(all_results, searches, q) ==
    IF q > Len(searches) THEN all_results
    ELSE MultiQueryLoop(MultiMergeLoop(all_results, searches[q], 1), searches, q + 1)

\* sorted(all_results.values(), key=score, reverse=True)
SortedResults(all_results) ==
    LET values == [i \in DOMAIN all_results.keys |->
                      all_results.val[all_results.keys[i]]]
        order == SortedIndexesDesc([i \in DOMAIN values |-> values[i].score])
    IN  [i \in 1..Len(order) |-> values[order[i]]]

\* MultiQueryRetriever.retrieve; searches[q] is what the store answers to
\* the q-th generated query.
MultiQueryRetrieve(query, top_k, searches) ==
    LET queries == GenerateQueries(query)
        all_results == MultiQueryLoop(EmptyDict,
                                      [q \in DOMAIN queries |-> searches[q]], 1)
    IN  [num_queries |-> Len(queries),
         results |-> Take(SortedResults(all_results), top_k)]

\* ------------------------------------------------------------ AgenticRAG
\* "関連するドキュメントが見つかりませんでした。"
NotFoundAnswer == [by |-> "fixed_not_found_message", call |-> 0]

\* The content of the n-th adapter call, when it is an answer text.
LlmAnswer(kind, n) == [by |-> kind, call |-> n]

\* _analyze_query's parse of the LLM's text.  out.kind is what the text
\* is: a JSON object, not JSON at all, a JSON object inside a fenced block
\* (json.loads is given the whole text and raises JSONDecodeError on the
\* fence), or JSON that is no object (which has no .get: AttributeError,
\* not among the caught JSONDecodeError and ValueError).  An enum value
\* outside SearchStrategy raises ValueError.
DefaultAnalysis == [search_strategy |-> "direct", sub_queries |-> <<>>]
AnalyzeQueryUncaught(out) ==
    CASE out.kind \in {"not_json", "fenced", "non_object"} ->
            [raised |-> TRUE, analysis |-> DefaultAnalysis]
      [] OTHER ->
            IF out.search_strategy \in {"direct", "decompose", "iterative"}
            THEN [raised |-> FALSE,
                  analysis |-> [search_strategy |-> out.search_strategy,
                                sub_queries |-> out.sub_queries]]
            ELSE [raised |-> FALSE, analysis |-> DefaultAnalysis]
AnalyzeQuery(out) ==
    CASE out.kind \in {"not_json", "fenced"} ->
            [raised |-> FALSE, analysis |-> DefaultAnalysis]
      [] out.kind = "non_object" -> [raised |-> TRUE, analysis |-> DefaultAnalysis]
      [] OTHER ->
            IF out.search_strategy \in {"direct", "decompose", "iterative"}
            THEN [raised |-> FALSE,
                  analysis |-> [search_strategy |-> out.search_strategy,
                                sub_queries |-> out.sub_queries]]
            ELSE [raised |-> FALSE, analysis |-> DefaultAnalysis]

\* query: analysis.search_strategy == SearchStrategy.DECOMPOSE
IsNotDirect(analysis) == analysis.search_strategy # "direct"
IsDecompose(analysis) == analysis.search_strategy = "decompose"

\* _rewrite_query's parse: [original_query] + rewritten_queries
RewriteQuery(original_query, out) ==
    CASE out.kind = "not_json" -> [raised |-> FALSE, queries |-> <<original_query>>]
      [] out.kind = "non_object" -> [raised |-> TRUE, queries |-> <<>>]
      [] OTHER -> [raised |-> FALSE,
                   queries |-> <<original_query>> \o out.rewritten_queries]

\* _handle_simple_query, merge of one source into all_sources: a new
\* chunk_id is stored, a known one replaced by a strictly higher score.
MergeSource(all_sources, source) ==
    IF ~DictHas(all_sources, source.chunk_id)
    THEN DictSet(all_sources, source.chunk_id, source)
    ELSE IF source.score > all_sources.val[source.chunk_id].score
         THEN DictSet(all_sources, source.chunk_id, source)
         ELSE all_sources

RECURSIVE MergeResults(_, _, _)
MergeResults(all_sources, results, i) ==
    IF i > Len(results) THEN all_sources
    ELSE MergeResults(MergeSource(all_sources, results[i]), results, i + 1)

\* sorted(all_sources.values(), key=score, reverse=True)[:top_k]
SelectSources(all_sources, top_k) ==
    LET values == [i \in DOMAIN all_sources.keys |->
                      all_sources.val[all_sources.keys[i]]]
        order == SortedIndexesDesc([i \in DOMAIN values |-> values[i].score])
        cut == Take(order, top_k)
    IN  [i \in 1..Len(cut) |-> values[cut[i]]]

\* list({s.chunk_id: s for s in all_sources}.values())[: top_k * 2]
UniqueSourcesUndeduplicated(all_sources, top_k) == Take(all_sources, top_k * 2)
RECURSIVE UniqueDict(_, _, _)
UniqueDict(d, all_sources, i) ==
    IF i > Len(all_sources) THEN d
    ELSE UniqueDict(DictSet(d, all_sources[i].chunk_id, all_sources[i]),
                    all_sources, i + 1)
UniqueSources(all_sources, top_k) ==
    LET d == UniqueDict(EmptyDict, all_sources, 1)
    IN  Take([i \in DOMAIN d.keys |-> d.val[d.keys[i]]], top_k * 2)

\* A value of a JSON object's field as json.loads yields it: an int, a
\* bool, None for null, or the key is absent.
JInt(n) == [t |-> "int", v |-> n]
JBool(b) == [t |-> "bool", v |-> IF b THEN 1 ELSE 0]
JNull == [t |-> "null", v |-> 0]
JMissing == [t |-> "missing", v |-> 0]

\* result.get(key, default)
Get(field, default) == IF field.t = "missing" THEN default ELSE field

\* Python truth of a value: None, False and 0 are false.
Truthy(x) == x.t \in {"int", "bool"} /\ x.v # 0

\* _evaluate_response's parse: the fields of a JSON object as they come
\* (only an absent key gets its default), the neutral verdict for text that
\* is not JSON.  JSON that is no object has no .get (AttributeError, not
\* the caught JSONDecodeError).
NeutralReflection ==
    [relevance |-> JInt(3), accuracy |-> JInt(3), completeness |-> JInt(3),
     needs_improvement |-> JBool(FALSE)]
EvaluateResponse(out) ==
    CASE out.kind \in {"not_json", "fenced"} ->
            [raised |-> FALSE, reflection |-> NeutralReflection]
      [] out.kind = "non_object" -> [raised |-> TRUE, reflection |-> NeutralReflection]
      [] OTHER -> [raised |-> FALSE,
                   reflection |-> [relevance |-> Get(out.relevance, JInt(3)),
                                   accuracy |-> Get(out.accuracy, JInt(3)),
                                   completeness |-> Get(out.completeness, JInt(3)),
                                   needs_improvement |->
                                       Get(out.needs_improvement, JBool(FALSE))]]

\* reflection.relevance + reflection.accuracy + reflection.completeness
\* raises TypeError when a score is None.
AvgScoreRaises(reflection) ==
    \E f \in {reflection.relevance, reflection.accuracy, reflection.completeness} :
        f.t = "null"

\* avg_score >= quality_threshold or not needs_improvement, avg_score the
\* sum of the three scores divided by 3
PassesReflectionBoth(reflection, quality_threshold) ==
    /\ reflection.relevance.v + reflection.accuracy.v + reflection.completeness.v
          >= 3 * quality_threshold
    /\ ~Truthy(reflection.needs_improvement)
PassesReflection(reflection, quality_threshold) ==
    \/ reflection.relevance.v + reflection.accuracy.v + reflection.completeness.v
          >= 3 * quality_threshold
    \/ ~Truthy(reflection.needs_improvement)

\* for iteration in range(max_iterations): no iteration is left
RangeExhaustedOneEarly(iteration, max_iterations) == iteration + 1 >= max_iterations
RangeExhausted(iteration, max_iterations) == iteration >= max_iterations

\* ===================================================================
\* State
\* ===================================================================
VARIABLES
    fusionIn,     \* arguments of a _reciprocal_rank_fusion call (and self)
    fusionOut,    \* what the call produced, NoCall before it returns
    fusionIn2,    \* a second call's arguments (two-run comparison)
    fusionOut2,   \* the second call's result
    rerankIn,     \* arguments of a Reranker.rerank call, and the model's scores
    rerankOut,    \* what the call produced, NoCall before it returns
    hybridSelf,   \* HybridRetriever fields alpha, rrf_k, use_rerank
    store,        \* the vector store's chunks (ids), as get_all_chunks lists them
    bm25Index,    \* HybridRetriever fields bm25, bm25_chunks
    hybridOut,    \* the last HybridRetriever.retrieve call, NoCall before it
    multiIn,      \* arguments of a MultiQueryRetriever.retrieve call, and the
                  \* store's answers to its searches
    multiOut,     \* what the call produced, NoCall before it returns
    lexOut,       \* the last HybridRetriever._bm25_search call, NoCall before it
    builtFrom,    \* history: the store's chunks when the index was last built
    builder,      \* a thread in _build_bm25_index: its pc and all_chunks
    reader,       \* a thread in _bm25_search: its frame
    cfg,          \* AgenticRAG fields top_k, max_iterations, quality_threshold
    pc,           \* where AgenticRAG.query stands
    analysis,     \* the QueryAnalysis of _analyze_query
    queries,      \* the queries of the running handler's loop
    qi,           \* 1-based index of the loop's next query
    all_sources,  \* the handler's all_sources (a dict in DIRECT, a list in DECOMPOSE)
    sub_answers,  \* DECOMPOSE: the sub-queries answered so far
    response,     \* the current RAGResponse: answer, sources, metadata
    iteration,    \* _reflect_and_improve's loop variable
    reflections,  \* history: every ReflectionResult evaluated, in order
    calls,        \* history: every adapter call made (LLM, retriever), in order
    parsed,       \* history: what the last LLM text parsed at each site was
    retrieved     \* history: the results _handle_simple_query's retrieve calls
                  \* returned so far, in order, until the handler returns

fusionVars == <<fusionIn, fusionOut, fusionIn2, fusionOut2>>
rerankVars == <<rerankIn, rerankOut>>
indexVars == <<lexOut, builtFrom, builder, reader>>
hybridVars == <<hybridSelf, store, bm25Index, hybridOut, multiIn, multiOut, indexVars>>
agentVars == <<cfg, pc, analysis, queries, qi, all_sources, sub_answers,
               response, iteration, reflections, calls, parsed, retrieved>>
vars == <<fusionVars, rerankVars, hybridVars, agentVars>>

NoCall == [called |-> FALSE]
NoInput == [unused |-> TRUE]

\* The components a specification does not exercise stay as constructed.
FusionIdle ==
    /\ fusionIn = NoInput /\ fusionIn2 = NoInput
    /\ fusionOut = NoCall /\ fusionOut2 = NoCall
RerankIdle == rerankIn = NoInput /\ rerankOut = NoCall
MultiIdle == multiIn = NoInput /\ multiOut = NoCall
BuilderIdle == [pc |-> "idle", all_chunks |-> <<>>]
IndexIdle ==
    /\ lexOut = NoCall /\ builtFrom = <<>>
    /\ builder = BuilderIdle /\ reader = ReaderIdle
HybridIdle ==
    /\ hybridSelf = NoInput /\ store = <<>>
    /\ bm25Index = BuildBm25Index(<<>>) /\ hybridOut = NoCall
    /\ MultiIdle /\ IndexIdle
NoMetadata == [strategy |-> None, improved |-> FALSE,
               reflection |-> [recorded |-> FALSE]]
NoResponse == [answer |-> [by |-> None, call |-> 0], sources |-> <<>>,
               metadata |-> NoMetadata]
NothingParsed == [analysis |-> None, rewrite |-> None, reflection |-> None]
AgentFresh ==
    /\ analysis = None /\ queries = <<>> /\ qi = 1
    /\ all_sources = EmptyDict /\ sub_answers = <<>>
    /\ response = NoResponse /\ iteration = 0
    /\ reflections = <<>> /\ calls = <<>>
    /\ parsed = NothingParsed /\ retrieved = <<>>
AgentIdle == cfg = NoInput /\ pc = "idle" /\ AgentFresh

\* ---------------------------------------------------------- input sets
\* alpha: "ベクトル検索の重み（0.0-1.0）", as fractions
Alphas == {<<0, 1>>, <<1, 4>>, DefaultAlpha}
RrfKs == {0, DefaultRrfK}
\* top_k of the fusion: small limits, and one no list reaches
TopKs == (0..MaxTopK) \cup {2 * NumChunks}

\* Ranked id lists without a repeated chunk_id.
RankedIdLists ==
    {s \in UNION {[1..n -> Chunks] : n \in 0..NumChunks} :
        \A i, j \in DOMAIN s : i # j => s[i] # s[j]}

\* A backend's result list: scores descending with the rank.
ResultsOf(ids) ==
    [i \in 1..Len(ids) |-> SearchResult(ids[i], ids[i], Len(ids) + 1 - i)]

\* Other score magnitudes for the same ranked ids.
ScoreVariants == {"scaled", "flat", "reversed"}
Rescore(results, v) ==
    [i \in DOMAIN results |->
        SearchResult(results[i].chunk_id, results[i].content,
                     CASE v = "scaled"   -> 7 * results[i].score + 3
                       [] v = "flat"     -> 1
                       [] v = "reversed" -> i)]

FusionInputs ==
    [self : [alpha : Alphas, rrf_k : RrfKs],
     vector_results : {ResultsOf(ids) : ids \in RankedIdLists},
     bm25_results : {ResultsOf(ids) : ids \in RankedIdLists},
     top_k : TopKs]

Fuse(in) ==
    [called |-> TRUE] @@
    ReciprocalRankFusion(in.self, in.vector_results, in.bm25_results, in.top_k)

\* ===================================================================
\* Spec: one call of _reciprocal_rank_fusion on any input
\* ===================================================================
Init ==
    /\ fusionIn \in FusionInputs
    /\ fusionOut = NoCall
    /\ fusionIn2 = fusionIn
    /\ fusionOut2 = NoCall
    /\ RerankIdle /\ HybridIdle /\ AgentIdle

FusionCall ==
    /\ ~fusionOut.called
    /\ fusionOut' = Fuse(fusionIn)
    /\ UNCHANGED <<fusionIn, fusionIn2, fusionOut2, rerankVars, hybridVars, agentVars>>

Next == FusionCall

Spec == Init /\ [][Next]_vars

\* ===================================================================
\* SpecFusionPair: two calls whose inputs differ in score values only
\* ===================================================================
InitPair ==
    /\ fusionIn \in {in \in FusionInputs : in.top_k = 2 * NumChunks}
    /\ fusionOut = NoCall
    /\ \E v \in ScoreVariants :
          fusionIn2 = [fusionIn EXCEPT
                          !.vector_results = Rescore(@, v),
                          !.bm25_results = Rescore(@, v)]
    /\ fusionOut2 = NoCall
    /\ RerankIdle /\ HybridIdle /\ AgentIdle

FusionFirstCall ==
    /\ ~fusionOut.called
    /\ fusionOut' = Fuse(fusionIn)
    /\ UNCHANGED <<fusionIn, fusionIn2, fusionOut2, rerankVars, hybridVars, agentVars>>

FusionSecondCall ==
    /\ fusionOut.called
    /\ ~fusionOut2.called
    /\ fusionOut2' = Fuse(fusionIn2)
    /\ UNCHANGED <<fusionIn, fusionIn2, fusionOut, rerankVars, hybridVars, agentVars>>

NextPair == FusionFirstCall \/ FusionSecondCall

SpecFusionPair == InitPair /\ [][NextPair]_vars

\* ===================================================================
\* SpecRerank: one call of Reranker.rerank on any input
\* ===================================================================
\* Scores the cross-encoder may give a pair.
CEScoreVals == 0..MaxCEScore

\* The candidate list of a rerank call: upstream scores descending.
RerankInputs ==
    {[query |-> "q", candidates |-> ResultsOf(ids), top_k |-> k, ce_scores |-> ce] :
        ids \in RankedIdLists, k \in 0..NumChunks,
        ce \in UNION {[1..n -> CEScoreVals] : n \in 0..NumChunks}}

InitRerank ==
    /\ rerankIn \in {in \in RerankInputs : Len(in.ce_scores) = Len(in.candidates)}
    /\ rerankOut = NoCall
    /\ FusionIdle /\ HybridIdle /\ AgentIdle

RerankCall ==
    /\ ~rerankOut.called
    /\ rerankOut' = [called |-> TRUE] @@
                    Rerank(rerankIn.query, rerankIn.candidates, rerankIn.top_k,
                           rerankIn.ce_scores)
    /\ UNCHANGED <<rerankIn, fusionVars, hybridVars, agentVars>>

NextRerank == RerankCall

SpecRerank == InitRerank /\ [][NextRerank]_vars

\* ===================================================================
\* SpecHybrid: a HybridRetriever over a store, answering retrieve calls
\* ===================================================================
\* Raw BM25 scores the lexical scorer may answer.
Bm25ScoreVals == {0, 1}
\* Cross-encoder answers: one that keeps the fused order (all equal) and
\* one that reverses it.  SpecRerank covers every answer.
HybridCEScores ==
    {[i \in 1..2 * NumChunks |-> 0], [i \in 1..2 * NumChunks |-> i]}

RankingsOf(ids) ==
    {p \in RankedIdLists : Len(p) = Len(ids) /\ Range(p) = Range(ids)}

InitHybrid ==
    /\ hybridSelf \in [alpha : {DefaultAlpha}, rrf_k : {DefaultRrfK},
                       use_rerank : BOOLEAN]
    /\ store \in RankedIdLists
    /\ bm25Index = BuildBm25Index(store)
    /\ hybridOut = NoCall
    /\ MultiIdle /\ IndexIdle
    /\ FusionIdle /\ RerankIdle /\ AgentIdle

\* One retrieve call is observed: a call leaves the retriever as it was.
Retrieve ==
    /\ ~hybridOut.called
    /\ \E top_k \in 1..MaxTopK, order \in RankingsOf(store),
       bm25_scores \in [DOMAIN bm25Index.bm25_chunks -> Bm25ScoreVals],
       ce_scores \in IF hybridSelf.use_rerank
                     THEN HybridCEScores
                     ELSE {[i \in 1..2 * NumChunks |-> 0]} :
        /\ hybridOut' = [called |-> TRUE] @@
                        HybridRetrieve(hybridSelf, bm25Index, "q", top_k,
                                       ResultsOf(order), bm25_scores, ce_scores)
        /\ UNCHANGED <<hybridSelf, store, bm25Index, multiIn, multiOut,
                       indexVars, fusionVars, rerankVars, agentVars>>

NextHybrid == Retrieve

SpecHybrid == InitHybrid /\ [][NextHybrid]_vars

\* ===================================================================
\* SpecMulti: one MultiQueryRetriever.retrieve call
\* ===================================================================
\* What the store may answer to search(embedding, top_k): at most top_k
\* points by score descending; two points may carry the same chunk_id.
StoreScoreVals == 1..2
SearchAnswers(top_k) ==
    {r \in UNION {[1..n -> {SearchResult(id, id, sc) :
                                id \in Chunks, sc \in StoreScoreVals}] :
                     n \in 0..top_k} :
        \A i \in 1..Len(r) - 1 : r[i].score >= r[i + 1].score}

\* The category_id payload the ingestion gave each chunk, and the
\* category a caller wants results restricted to (None: no restriction).
\* retrieve(query, top_k) and search(query_embedding, top_k) have no
\* parameter that could carry it.
CategoryOf(chunk_id) == IF chunk_id % 2 = 1 THEN "category_1" ELSE "category_2"
CategoryFilters == {None, "category_1", "category_2"}

InitMulti ==
    /\ \E top_k \in 1..NumChunks :
          multiIn \in [query : {"q"}, top_k : {top_k},
                       category_filter : CategoryFilters,
                       searches : [1..1 -> SearchAnswers(top_k)]]
    /\ multiOut = NoCall
    /\ hybridSelf = NoInput /\ store = <<>>
    /\ bm25Index = BuildBm25Index(<<>>) /\ hybridOut = NoCall
    /\ IndexIdle
    /\ FusionIdle /\ RerankIdle /\ AgentIdle

MultiRetrieve ==
    /\ multiIn # NoInput
    /\ ~multiOut.called
    /\ multiOut' = [called |-> TRUE] @@
                   MultiQueryRetrieve(multiIn.query, multiIn.top_k, multiIn.searches)
    /\ UNCHANGED <<multiIn, hybridSelf, store, bm25Index, hybridOut,
                   indexVars, fusionVars, rerankVars, agentVars>>

NextMulti == MultiRetrieve

SpecMulti == InitMulti /\ [][NextMulti]_vars

\* ===================================================================
\* SpecIndex: the lexical index of a HybridRetriever, used by one thread:
\* writes to the store, rebuilds, then one _bm25_search call
\* ===================================================================
\* HybridRetriever.__init__ on a store that holds some chunks
InitIndex ==
    /\ store \in RankedIdLists
    /\ bm25Index = BuildBm25Index(GetAllChunks(store))
    /\ builtFrom = store
    /\ lexOut = NoCall /\ builder = BuilderIdle /\ reader = ReaderIdle
    /\ hybridSelf = NoInput /\ hybridOut = NoCall /\ MultiIdle
    /\ FusionIdle /\ RerankIdle /\ AgentIdle

\* QdrantVectorStore.add_documents of one chunk: the store gets a point;
\* the retriever is not told.
AddDocumentsReindexing ==
    /\ ~lexOut.called
    /\ Len(store) < NumChunks
    /\ \E chunk \in Chunks \ Range(store) :
          /\ store' = Append(store, chunk)
          /\ bm25Index' = BuildBm25Index(Append(store, chunk))
    /\ UNCHANGED <<hybridSelf, hybridOut, multiIn, multiOut,
                   indexVars, fusionVars, rerankVars, agentVars>>
AddDocuments ==
    /\ ~lexOut.called
    /\ Len(store) < NumChunks
    /\ \E chunk \in Chunks \ Range(store) : store' = Append(store, chunk)
    /\ UNCHANGED <<hybridSelf, bm25Index, hybridOut, multiIn, multiOut,
                   indexVars, fusionVars, rerankVars, agentVars>>

\* _build_bm25_index, run again by the one thread
RebuildIndex ==
    /\ ~lexOut.called
    /\ builtFrom # store
    /\ bm25Index' = BuildBm25Index(GetAllChunks(store))
    /\ builtFrom' = store
    /\ UNCHANGED <<hybridSelf, store, hybridOut, multiIn, multiOut,
                   lexOut, builder, reader, fusionVars, rerankVars, agentVars>>

\* One _bm25_search(query, top_k) call is observed; bm25_scores is what
\* get_scores answers for the query.  top_k is positive: the API accepts
\* top_k >= 1 and the pipelines replace 0 by the configured default.
LexicalSearch ==
    /\ ~lexOut.called
    /\ \E top_k \in 1..2 * MaxTopK,
          bm25_scores \in [DOMAIN bm25Index.bm25.corpus -> Bm25ScoreVals] :
          lexOut' = [called |-> TRUE, top_k |-> top_k, bm25_scores |-> bm25_scores,
                     results |-> Bm25Search(bm25Index, bm25_scores, top_k)]
    /\ UNCHANGED <<hybridSelf, store, bm25Index, hybridOut, multiIn, multiOut,
                   builtFrom, builder, reader, fusionVars, rerankVars, agentVars>>

NextIndex == AddDocuments \/ RebuildIndex \/ LexicalSearch

SpecIndex == InitIndex /\ [][NextIndex]_vars

\* ===================================================================
\* SpecRebuild: one thread runs _build_bm25_index on a retriever whose
\* store has changed while another runs _bm25_search; a step is one
\* statement (a field of the retriever is read or written in one piece)
\* ===================================================================
InitRebuild ==
    /\ \E old \in RankedIdLists :
          /\ bm25Index = BuildBm25Index(GetAllChunks(old))
          /\ builtFrom = old
          /\ store \in RankedIdLists \ {old}
    /\ builder = [pc |-> "start", all_chunks |-> <<>>]
    /\ reader = [ReaderIdle EXCEPT !.pc = "start"]
    /\ lexOut = NoCall
    /\ hybridSelf = NoInput /\ hybridOut = NoCall /\ MultiIdle
    /\ FusionIdle /\ RerankIdle /\ AgentIdle

\* all_chunks = self.vector_store.get_all_chunks(); if not all_chunks
BuilderGetChunks ==
    /\ builder.pc = "start"
    /\ builder' = [pc |-> IF GetAllChunks(store) = <<>>
                          THEN "clear_bm25" ELSE "set_chunks",
                   all_chunks |-> GetAllChunks(store)]
    /\ UNCHANGED <<hybridSelf, store, bm25Index, hybridOut, multiIn, multiOut,
                   lexOut, builtFrom, reader, fusionVars, rerankVars, agentVars>>

\* self.bm25 = None
BuilderClearBm25 ==
    /\ builder.pc = "clear_bm25"
    /\ bm25Index' = [bm25Index EXCEPT !.bm25 = NoBm25]
    /\ builder' = [builder EXCEPT !.pc = "clear_chunks"]
    /\ UNCHANGED <<hybridSelf, store, hybridOut, multiIn, multiOut,
                   lexOut, builtFrom, reader, fusionVars, rerankVars, agentVars>>

\* self.bm25_chunks = []; return
BuilderClearChunks ==
    /\ builder.pc = "clear_chunks"
    /\ bm25Index' = [bm25Index EXCEPT !.bm25_chunks = <<>>]
    /\ builder' = [builder EXCEPT !.pc = "done"]
    /\ builtFrom' = builder.all_chunks
    /\ UNCHANGED <<hybridSelf, store, hybridOut, multiIn, multiOut,
                   lexOut, reader, fusionVars, rerankVars, agentVars>>

\* self.bm25_chunks = all_chunks
BuilderSetChunks ==
    /\ builder.pc = "set_chunks"
    /\ bm25Index' = [bm25Index EXCEPT !.bm25_chunks = builder.all_chunks]
    /\ builder' = [builder EXCEPT !.pc = "set_bm25"]
    /\ UNCHANGED <<hybridSelf, store, hybridOut, multiIn, multiOut,
                   lexOut, builtFrom, reader, fusionVars, rerankVars, agentVars>>

\* self.bm25 = BM25Okapi(tokenized_corpus)
BuilderSetBm25 ==
    /\ builder.pc = "set_bm25"
    /\ bm25Index' = [bm25Index EXCEPT !.bm25 = BM25Okapi(builder.all_chunks)]
    /\ builder' = [builder EXCEPT !.pc = "done"]
    /\ builtFrom' = builder.all_chunks
    /\ UNCHANGED <<hybridSelf, store, hybridOut, multiIn, multiOut,
                   lexOut, reader, fusionVars, rerankVars, agentVars>>

ReaderUnchanged ==
    UNCHANGED <<hybridSelf, store, bm25Index, hybridOut, multiIn, multiOut,
                lexOut, builtFrom, builder, fusionVars, rerankVars, agentVars>>

ReaderStart ==
    /\ reader.pc = "start"
    /\ \E top_k \in 1..MaxTopK : reader' = ReaderCheck(reader, bm25Index, top_k)
    /\ ReaderUnchanged

ReaderScores ==
    /\ reader.pc = "get_scores"
    /\ \E bm25_scores \in [DOMAIN bm25Index.bm25.corpus -> Bm25ScoreVals] :
          reader' = ReaderGetScores(reader, bm25Index, bm25_scores)
    /\ ReaderUnchanged

ReaderTurn ==
    /\ reader.pc = "loop"
    /\ reader' = ReaderLoopTurn(reader, bm25Index)
    /\ ReaderUnchanged

NextRebuild ==
    \/ BuilderGetChunks \/ BuilderClearBm25 \/ BuilderClearChunks
    \/ BuilderSetChunks \/ BuilderSetBm25
    \/ ReaderStart \/ ReaderScores \/ ReaderTurn

SpecRebuild == InitRebuild /\ [][NextRebuild]_vars

\* ===================================================================
\* SpecAgent: one AgenticRAG.query, adapter call by adapter call
\* ===================================================================
Question == <<"question", 0>>

\* What the LLM may answer to the analysis prompt.
FencedAnalysis ==
    [kind |-> "fenced", search_strategy |-> "decompose",
     sub_queries |-> << <<"sub_query", 1>> >>]
AnalysisOutputs ==
    {FencedAnalysis,
     [kind |-> "not_json", search_strategy |-> None, sub_queries |-> <<>>],
     [kind |-> "non_object", search_strategy |-> None, sub_queries |-> <<>>],
     [kind |-> "object", search_strategy |-> "direct", sub_queries |-> <<>>],
     [kind |-> "object", search_strategy |-> "iterative", sub_queries |-> <<>>],
     [kind |-> "object", search_strategy |-> "no_such_strategy", sub_queries |-> <<>>]}
    \cup {[kind |-> "object", search_strategy |-> "decompose",
           sub_queries |-> [i \in 1..n |-> <<"sub_query", i>>]] :
             n \in 0..MaxSubQueries}

\* What the LLM may answer to the rewrite prompt.
RewriteOutputs ==
    {[kind |-> "not_json", rewritten_queries |-> <<>>],
     [kind |-> "non_object", rewritten_queries |-> <<>>]}
    \cup {[kind |-> "object",
           rewritten_queries |-> [i \in 1..n |-> <<"rewrite", i>>]] :
             n \in 0..MaxRewrites}

\* What the LLM may answer to the reflection prompt.
LowVerdict ==
    [kind |-> "object", relevance |-> JInt(2), accuracy |-> JInt(2),
     completeness |-> JInt(2), needs_improvement |-> JBool(TRUE)]
ReflectionOutputs ==
    {LowVerdict,
     [LowVerdict EXCEPT !.needs_improvement = JBool(FALSE)],
     [LowVerdict EXCEPT !.relevance = JInt(4), !.accuracy = JInt(4),
                        !.completeness = JInt(3)],
     [LowVerdict EXCEPT !.relevance = JInt(5), !.accuracy = JInt(5),
                        !.completeness = JInt(5)],
     [LowVerdict EXCEPT !.relevance = JMissing],
     [LowVerdict EXCEPT !.accuracy = JNull],
     [LowVerdict EXCEPT !.completeness = JInt(9)],
     [LowVerdict EXCEPT !.needs_improvement = JNull],
     [LowVerdict EXCEPT !.kind = "fenced"],
     [LowVerdict EXCEPT !.kind = "not_json"],
     [LowVerdict EXCEPT !.kind = "non_object"]}

\* What the retriever may answer to retrieve(q, top_k): at most top_k
\* candidates, by score descending (a store that holds a chunk twice
\* answers with the same chunk_id twice).
RetrieverAnswers(top_k) ==
    {r \in {<<>>,
            <<SearchResult(1, 1, 2)>>,
            <<SearchResult(1, 1, 1)>>,
            <<SearchResult(2, 2, 2), SearchResult(1, 1, 1)>>,
            <<SearchResult(1, 1, 2), SearchResult(1, 1, 1)>>} :
        Len(r) <= top_k}

Metadata(strategy) ==
    [strategy |-> strategy, improved |-> FALSE, reflection |-> [recorded |-> FALSE]]

InitAgent ==
    /\ cfg \in [top_k : 1..MaxTopK, max_iterations : 0..MaxIterations,
                quality_threshold : {3, DefaultQualityThreshold}]
    /\ pc = "analyze"
    /\ AgentFresh
    /\ FusionIdle /\ RerankIdle /\ HybridIdle

\* query: _analyze_query, then the dispatch on the strategy
Analyze ==
    /\ pc = "analyze"
    /\ \E out \in AnalysisOutputs :
          LET r == AnalyzeQuery(out) IN
          /\ calls' = Append(calls, "analysis")
          /\ parsed' = [parsed EXCEPT !.analysis = out.kind]
          /\ IF r.raised
             THEN /\ pc' = "raised"
                  /\ UNCHANGED <<analysis, queries, all_sources>>
             ELSE /\ analysis' = r.analysis
                  /\ IF IsDecompose(r.analysis)
                     THEN /\ queries' = IF r.analysis.sub_queries = <<>>
                                        THEN <<Question>>
                                        ELSE r.analysis.sub_queries
                          /\ all_sources' = <<>>
                          /\ pc' = "sub_retrieve"
                     ELSE /\ UNCHANGED <<queries, all_sources>>
                          /\ pc' = "rewrite"
    /\ UNCHANGED <<cfg, qi, sub_answers, response, iteration, reflections,
                   retrieved, fusionVars, rerankVars, hybridVars>>

\* _handle_simple_query: _rewrite_query
Rewrite ==
    /\ pc = "rewrite"
    /\ \E out \in RewriteOutputs :
          LET r == RewriteQuery(Question, out) IN
          /\ calls' = Append(calls, "rewrite")
          /\ parsed' = [parsed EXCEPT !.rewrite = out.kind]
          /\ IF r.raised
             THEN pc' = "raised" /\ UNCHANGED queries
             ELSE pc' = "retrieve" /\ queries' = r.queries
    /\ UNCHANGED <<cfg, analysis, qi, all_sources, sub_answers, response,
                   iteration, reflections, retrieved, fusionVars, rerankVars, hybridVars>>

\* _handle_simple_query: one turn of the retrieval loop; after the last
\* query the sources are selected and, when there is none, the fixed
\* answer is returned to query.
RetrieveSimple ==
    /\ pc = "retrieve"
    /\ \E results \in RetrieverAnswers(cfg.top_k) :
          LET merged == MergeResults(all_sources, results, 1)
              sources == SelectSources(merged, cfg.top_k)
          IN  /\ calls' = Append(calls, "retrieve")
              /\ all_sources' = merged
              /\ IF qi < Len(queries)
                 THEN /\ qi' = qi + 1
                      /\ retrieved' = retrieved \o results
                      /\ UNCHANGED <<pc, response>>
                 ELSE /\ UNCHANGED qi
                      /\ IF sources = <<>>
                         THEN /\ response' = [answer |-> NotFoundAnswer,
                                              sources |-> <<>>,
                                              metadata |-> Metadata("simple")]
                              /\ retrieved' = <<>>
                              /\ pc' = "reflect"
                         ELSE /\ response' = [response EXCEPT !.sources = sources]
                              /\ retrieved' = retrieved \o results
                              /\ pc' = "generate"
    /\ UNCHANGED <<cfg, analysis, queries, sub_answers, iteration, reflections,
                   parsed, fusionVars, rerankVars, hybridVars>>

\* _handle_simple_query: the answer generation
Generate ==
    /\ pc = "generate"
    /\ calls' = Append(calls, "generate")
    /\ response' = [answer |-> LlmAnswer("generate", Len(calls) + 1),
                    sources |-> response.sources,
                    metadata |-> Metadata("simple")]
    /\ retrieved' = <<>>
    /\ pc' = "reflect"
    /\ UNCHANGED <<cfg, analysis, queries, qi, all_sources, sub_answers,
                   iteration, reflections, parsed, fusionVars, rerankVars, hybridVars>>

\* _handle_complex_query: what follows the turn of sub-query qi, answers
\* being the sub_answers after it
AfterSubQuerySynthesizeAlways(answers) ==
    IF qi < Len(queries)
    THEN /\ qi' = qi + 1
         /\ pc' = "sub_retrieve"
         /\ UNCHANGED response
    ELSE /\ UNCHANGED <<qi, response>>
         /\ pc' = "synthesize"
AfterSubQuery(answers) ==
    IF qi < Len(queries)
    THEN /\ qi' = qi + 1
         /\ pc' = "sub_retrieve"
         /\ UNCHANGED response
    ELSE /\ UNCHANGED qi
         /\ IF answers # <<>>
            THEN pc' = "synthesize" /\ UNCHANGED response
            ELSE /\ response' = [answer |-> NotFoundAnswer,
                                 sources |-> UniqueSources(all_sources', cfg.top_k),
                                 metadata |-> Metadata("decompose")]
                 /\ pc' = "reflect"

\* _handle_complex_query: the retrieval of one sub-query
SubRetrieve ==
    /\ pc = "sub_retrieve"
    /\ \E results \in RetrieverAnswers(cfg.top_k) :
          /\ calls' = Append(calls, "retrieve")
          /\ all_sources' = all_sources \o results
          /\ IF results # <<>>
             THEN pc' = "sub_generate" /\ UNCHANGED <<qi, response>>
             ELSE AfterSubQuery(sub_answers)
    /\ UNCHANGED <<cfg, analysis, queries, sub_answers, iteration, reflections,
                   parsed, retrieved, fusionVars, rerankVars, hybridVars>>

\* _handle_complex_query: the partial answer of one sub-query
SubGenerate ==
    /\ pc = "sub_generate"
    /\ calls' = Append(calls, "sub_generate")
    /\ sub_answers' = Append(sub_answers, queries[qi])
    /\ UNCHANGED all_sources
    /\ AfterSubQuery(sub_answers')
    /\ UNCHANGED <<cfg, analysis, queries, iteration, reflections,
                   parsed, retrieved, fusionVars, rerankVars, hybridVars>>

\* _handle_complex_query: the synthesis of the partial answers
Synthesize ==
    /\ pc = "synthesize"
    /\ calls' = Append(calls, "synthesis")
    /\ response' = [answer |-> LlmAnswer("synthesis", Len(calls) + 1),
                    sources |-> UniqueSources(all_sources, cfg.top_k),
                    metadata |-> Metadata("decompose")]
    /\ pc' = "reflect"
    /\ UNCHANGED <<cfg, analysis, queries, qi, all_sources, sub_answers,
                   iteration, reflections, parsed, retrieved, fusionVars, rerankVars, hybridVars>>

\* _reflect_and_improve: _evaluate_response and the pass test
Evaluate ==
    /\ pc = "reflect"
    /\ ~RangeExhausted(iteration, cfg.max_iterations)
    /\ \E out \in ReflectionOutputs :
          LET r == EvaluateResponse(out) IN
          /\ calls' = Append(calls, "reflection")
          /\ parsed' = [parsed EXCEPT !.reflection = out.kind]
          /\ IF r.raised
             THEN pc' = "raised" /\ UNCHANGED <<reflections, response>>
             ELSE /\ reflections' = Append(reflections, r.reflection)
                  /\ IF AvgScoreRaises(r.reflection)
                     THEN pc' = "raised" /\ UNCHANGED response
                     ELSE IF PassesReflection(r.reflection, cfg.quality_threshold)
                     THEN /\ response' =
                               [response EXCEPT !.metadata.reflection =
                                   [recorded |-> TRUE,
                                    iterations |-> iteration + 1,
                                    final_scores |-> r.reflection]]
                          /\ pc' = "done"
                     ELSE pc' = "improve" /\ UNCHANGED response
    /\ UNCHANGED <<cfg, analysis, queries, qi, all_sources, sub_answers,
                   iteration, retrieved, fusionVars, rerankVars, hybridVars>>

\* _reflect_and_improve: _improve_response, which ends the iteration
Improve ==
    /\ pc = "improve"
    /\ calls' = Append(calls, "improve")
    /\ response' = [response EXCEPT
                       !.answer = LlmAnswer("improve", Len(calls) + 1),
                       !.metadata.improved = TRUE]
    /\ iteration' = iteration + 1
    /\ pc' = "reflect"
    /\ UNCHANGED <<cfg, analysis, queries, qi, all_sources, sub_answers,
                   reflections, parsed, retrieved, fusionVars, rerankVars, hybridVars>>

\* _reflect_and_improve: the loop is over, the response is returned as is
ReturnLast ==
    /\ pc = "reflect"
    /\ RangeExhausted(iteration, cfg.max_iterations)
    /\ pc' = "done"
    /\ UNCHANGED <<cfg, analysis, queries, qi, all_sources, sub_answers,
                   response, iteration, reflections, calls,
                   parsed, retrieved, fusionVars, rerankVars, hybridVars>>

\* An adapter call (LLM or retriever) raises: nothing in query catches it.
AdapterFailureRetried ==
    /\ \/ pc \in {"analyze", "rewrite", "retrieve", "generate", "sub_retrieve",
                  "sub_generate", "synthesize", "improve"}
       \/ pc = "reflect" /\ ~RangeExhausted(iteration, cfg.max_iterations)
    /\ calls' = Append(calls, "failed")
    /\ UNCHANGED <<cfg, pc, analysis, queries, qi, all_sources, sub_answers,
                   response, iteration, reflections, parsed, retrieved,
                   fusionVars, rerankVars, hybridVars>>
AdapterFailure ==
    /\ \/ pc \in {"analyze", "rewrite", "retrieve", "generate", "sub_retrieve",
                  "sub_generate", "synthesize", "improve"}
       \/ pc = "reflect" /\ ~RangeExhausted(iteration, cfg.max_iterations)
    /\ calls' = Append(calls, "failed")
    /\ pc' = "raised"
    /\ UNCHANGED <<cfg, analysis, queries, qi, all_sources, sub_answers,
                   response, iteration, reflections,
                   parsed, retrieved, fusionVars, rerankVars, hybridVars>>

NextAgent ==
    \/ Analyze \/ Rewrite \/ RetrieveSimple \/ Generate
    \/ SubRetrieve \/ SubGenerate \/ Synthesize
    \/ Evaluate \/ Improve \/ ReturnLast \/ AdapterFailure

SpecAgent == InitAgent /\ [][NextAgent]_vars

\* ===================================================================
\* SpecComponents: any one of the retrievers' calls or the agent's query
\* ===================================================================
InitComponents == InitHybrid \/ InitMulti \/ InitAgent

NextComponents ==
    \/ hybridSelf # NoInput /\ NextHybrid
    \/ NextMulti
    \/ NextAgent

SpecComponents == InitComponents /\ [][NextComponents]_vars

\* ===================================================================
\* Claims
\* ===================================================================
\* 1-based position of id in a list of ids, 0 when absent
PosIn(ids, id) ==
    IF \E i \in DOMAIN ids : ids[i] = id
    THEN CHOOSE i \in DOMAIN ids : ids[i] = id
    ELSE 0

VecIds == IdsOf(fusionIn.vector_results)
LexIds == IdsOf(fusionIn.bm25_results)

\* w / (rrf_k + r) for 1-based rank r, 0 for r = 0 (absent)
Contribution(w, k, r) == IF r = 0 THEN FZero ELSE <<w[1], w[2] * (k + r)>>

ExpectedFused(id) ==
    FAdd(Contribution(fusionIn.self.alpha, fusionIn.self.rrf_k, PosIn(VecIds, id)),
         Contribution(OneMinus(fusionIn.self.alpha), fusionIn.self.rrf_k,
                      PosIn(LexIds, id)))

Occurrences(results, id) == Cardinality({i \in DOMAIN results : results[i].chunk_id = id})

\* C1: after _reciprocal_rank_fusion, every chunk_id of either list has the
\* fused score alpha/(rrf_k + r_v) + (1-alpha)/(rrf_k + r_l) (a term is 0
\* when the id is absent from that list), ids of neither list have no
\* score, and every returned candidate carries its fused score.
C1_FusedScoreFormula ==
    fusionOut.called =>
        /\ \A id \in Chunks :
              IF PosIn(VecIds, id) = 0 /\ PosIn(LexIds, id) = 0
              THEN ~DictHas(fusionOut.scores, id)
              ELSE /\ DictHas(fusionOut.scores, id)
                   /\ FEq(fusionOut.scores.val[id], ExpectedFused(id))
        /\ \A i \in DOMAIN fusionOut.merged_results :
              FEq(fusionOut.merged_results[i].score,
                  ExpectedFused(fusionOut.merged_results[i].chunk_id))

C1_Witness ==
    /\ fusionOut.called
    /\ fusionIn.self.alpha = <<1, 4>>
    /\ \E id \in Chunks :
          /\ PosIn(VecIds, id) = 2
          /\ PosIn(LexIds, id) = 3
          /\ Occurrences(fusionOut.merged_results, id) = 1

\* The end-to-end case: A = 1, B = 2, C = 3.
EndToEndCase ==
    /\ fusionOut.called
    /\ VecIds = <<1, 2, 3>>
    /\ LexIds = <<2, 1, 3>>
    /\ fusionIn.self.alpha = DefaultAlpha
    /\ fusionIn.self.rrf_k = DefaultRrfK

\* C2 (as stated): in the end-to-end case B is ranked above A.
C2_Original_BAboveA ==
    EndToEndCase =>
        PosIn(fusionOut.sorted_ids, 2) < PosIn(fusionOut.sorted_ids, 1)

\* C2 (amended): in the end-to-end case A and B have exactly equal fused
\* scores and the fused order is A, B, C: A heads the vector list, so it is
\* first among the tied; the output is that order cut to top_k.
C2_EndToEndTieKeepsA ==
    EndToEndCase =>
        /\ FEq(fusionOut.scores.val[1], fusionOut.scores.val[2])
        /\ fusionOut.sorted_ids = <<1, 2, 3>>
        /\ IdsOf(fusionOut.merged_results) = Take(<<1, 2, 3>>, fusionIn.top_k)

C2_Witness ==
    /\ EndToEndCase
    /\ fusionIn.top_k = 2 * NumChunks
    /\ Len(fusionOut.merged_results) = 3

\* Order of first appearance across the inputs: vector list, then lexical.
FirstAppearance(id) ==
    IF PosIn(VecIds, id) > 0 THEN PosIn(VecIds, id)
    ELSE Len(VecIds) + PosIn(LexIds, id)

\* C3: the output is sorted by fused score descending, and candidates with
\* exactly equal fused scores are in order of first appearance across the
\* input lists (vector list first, then lexical list).
C3_SortedDescStableTies ==
    fusionOut.called =>
        \A i, j \in DOMAIN fusionOut.merged_results :
            i < j =>
                LET a == fusionOut.merged_results[i]
                    b == fusionOut.merged_results[j]
                IN  /\ ~FGt(b.score, a.score)
                    /\ FEq(a.score, b.score) =>
                          FirstAppearance(a.chunk_id) < FirstAppearance(b.chunk_id)

C3_Witness ==
    /\ fusionOut.called
    /\ \E i, j \in DOMAIN fusionOut.merged_results :
          /\ i < j
          /\ FEq(fusionOut.merged_results[i].score, fusionOut.merged_results[j].score)
          /\ PosIn(VecIds, fusionOut.merged_results[j].chunk_id) = 0
          /\ PosIn(LexIds, fusionOut.merged_results[i].chunk_id) = 0
    /\ \E i \in DOMAIN fusionOut.merged_results :
          i > 1 /\ FGt(fusionOut.merged_results[i - 1].score,
                       fusionOut.merged_results[i].score)

InBoth(id) == PosIn(VecIds, id) > 0 /\ PosIn(LexIds, id) > 0

\* C4 (as stated): a chunk_id present in both lists appears exactly once in
\* the output, with the sum of its two contributions.
C4_Original_ExactlyOnce ==
    fusionOut.called =>
        \A id \in Chunks :
            InBoth(id) => Occurrences(fusionOut.merged_results, id) = 1

\* C4 (amended): no chunk_id is emitted twice; a chunk_id present in both
\* lists is exactly once in the fused ranking with the sum of its two
\* contributions, and it is in the output (once, with that sum) exactly when
\* its place in the fused ranking is within top_k.
C4_OnceWithinTopK ==
    fusionOut.called =>
        /\ \A id \in Chunks : Occurrences(fusionOut.merged_results, id) <= 1
        /\ \A id \in Chunks :
              InBoth(id) =>
                  /\ Cardinality({i \in DOMAIN fusionOut.sorted_ids :
                                     fusionOut.sorted_ids[i] = id}) = 1
                  /\ FEq(fusionOut.scores.val[id], ExpectedFused(id))
                  /\ IF PosIn(fusionOut.sorted_ids, id) <= fusionIn.top_k
                     THEN \E i \in DOMAIN fusionOut.merged_results :
                             /\ fusionOut.merged_results[i].chunk_id = id
                             /\ FEq(fusionOut.merged_results[i].score,
                                    ExpectedFused(id))
                     ELSE Occurrences(fusionOut.merged_results, id) = 0

C4_Witness ==
    /\ fusionOut.called
    /\ \E id \in Chunks :
          /\ InBoth(id)
          /\ PosIn(VecIds, id) # PosIn(LexIds, id)
          /\ Occurrences(fusionOut.merged_results, id) = 1
          /\ Len(fusionOut.merged_results) = fusionIn.top_k
          /\ Len(fusionOut.sorted_ids) > fusionIn.top_k

\* C5: two calls whose input lists have the same chunk_id order and
\* different score values return the same chunk_id order and fused scores.
C5_OrderIndependentOfMagnitudes ==
    (fusionOut.called /\ fusionOut2.called) =>
        /\ IdsOf(fusionOut2.merged_results) = IdsOf(fusionOut.merged_results)
        /\ \A i \in DOMAIN fusionOut.merged_results :
              FEq(fusionOut2.merged_results[i].score,
                  fusionOut.merged_results[i].score)

C5_Witness ==
    /\ fusionOut.called
    /\ fusionOut2.called
    /\ Len(fusionIn.vector_results) >= 2
    /\ Len(fusionIn.bm25_results) >= 2
    /\ fusionIn2.vector_results # fusionIn.vector_results
    /\ fusionIn2.vector_results[1].score < fusionIn2.vector_results[2].score
    /\ IdsOf(fusionIn2.vector_results) = IdsOf(fusionIn.vector_results)
    /\ IdsOf(fusionIn2.bm25_results) = IdsOf(fusionIn.bm25_results)

\* C6: with one input list empty the fused order is the other list's order
\* and the candidate at rank r has score w/(rrf_k + r), w the weight of the
\* non-empty source alone (alpha for vector, 1-alpha for lexical).
C6_OneEmptyList ==
    fusionOut.called =>
        /\ LexIds = <<>> =>
              /\ fusionOut.sorted_ids = VecIds
              /\ \A r \in DOMAIN VecIds :
                    FEq(fusionOut.scores.val[VecIds[r]],
                        Contribution(fusionIn.self.alpha, fusionIn.self.rrf_k, r))
        /\ VecIds = <<>> =>
              /\ fusionOut.sorted_ids = LexIds
              /\ \A r \in DOMAIN LexIds :
                    FEq(fusionOut.scores.val[LexIds[r]],
                        Contribution(OneMinus(fusionIn.self.alpha),
                                     fusionIn.self.rrf_k, r))
        /\ (LexIds = <<>> \/ VecIds = <<>>) =>
              IdsOf(fusionOut.merged_results) =
                  Take(fusionOut.sorted_ids, fusionIn.top_k)

C6_Witness ==
    /\ fusionOut.called
    /\ VecIds = <<>>
    /\ Len(LexIds) = 3
    /\ fusionIn.self.alpha = <<1, 4>>
    /\ IdsOf(fusionOut.merged_results) = LexIds

\* C7: with reranking disabled, retrieve(query, top_k) returns exactly
\* min(top_k, fused_candidate_count) candidates, fused_candidate_count the
\* number of distinct chunk_ids among the vector and the lexical results.
FusedCandidateCount ==
    Cardinality(Range(IdsOf(hybridOut.vector_results))
                \cup Range(IdsOf(hybridOut.bm25_results)))

C7_HybridSizeWithoutRerank ==
    (hybridOut.called /\ ~hybridSelf.use_rerank) =>
        Len(hybridOut.results) = Min(hybridOut.top_k, FusedCandidateCount)

C7_Witness ==
    /\ hybridOut.called
    /\ ~hybridSelf.use_rerank
    /\ hybridOut.top_k = 1
    /\ Len(hybridOut.vector_results) = 2
    /\ Len(hybridOut.bm25_results) = 2
    /\ FusedCandidateCount = 3
    /\ Len(hybridOut.results) = 1

C7_WitnessFewCandidates ==
    /\ hybridOut.called
    /\ ~hybridSelf.use_rerank
    /\ hybridOut.top_k = 2
    /\ FusedCandidateCount = 1
    /\ Len(hybridOut.results) = 1

\* C8: whenever len(candidates) <= top_k, rerank does not invoke the
\* cross-encoder and returns the input list, same elements, same order.
C8_RerankShortCircuit ==
    (rerankOut.called /\ Len(rerankIn.candidates) <= rerankIn.top_k) =>
        /\ rerankOut.predict_calls = 0
        /\ rerankOut.pairs = <<>>
        /\ rerankOut.ret = rerankIn.candidates

\* The cross-encoder would have put the last candidate first.
C8_Witness ==
    /\ rerankOut.called
    /\ Len(rerankIn.candidates) = rerankIn.top_k
    /\ Len(rerankIn.candidates) >= 2
    /\ rerankIn.ce_scores[1] < rerankIn.ce_scores[Len(rerankIn.candidates)]
    /\ rerankOut.ret = rerankIn.candidates

\* C9: with len(candidates) > top_k >= 1, rerank scores every
\* (query, content) pair and returns exactly top_k candidates drawn from the
\* input (distinct positions), by cross-encoder score descending, none left
\* out scoring higher than one returned, each with its upstream score.
C9_RerankTopK ==
    (rerankOut.called /\ Len(rerankIn.candidates) > rerankIn.top_k
                      /\ rerankIn.top_k >= 1) =>
        /\ rerankOut.predict_calls = 1
        /\ rerankOut.pairs = [i \in DOMAIN rerankIn.candidates |->
                                 <<rerankIn.query, rerankIn.candidates[i].content>>]
        /\ Len(rerankOut.ret) = rerankIn.top_k
        /\ \E f \in [1..rerankIn.top_k -> DOMAIN rerankIn.candidates] :
              /\ \A i, j \in DOMAIN f : i # j => f[i] # f[j]
              /\ \A i \in DOMAIN f : rerankOut.ret[i] = rerankIn.candidates[f[i]]
              /\ \A i, j \in DOMAIN f :
                    i < j => rerankIn.ce_scores[f[i]] >= rerankIn.ce_scores[f[j]]
              /\ \A c \in DOMAIN rerankIn.candidates :
                    (\A i \in DOMAIN f : f[i] # c) =>
                        \A i \in DOMAIN f :
                            rerankIn.ce_scores[f[i]] >= rerankIn.ce_scores[c]

C9_Witness ==
    /\ rerankOut.called
    /\ Len(rerankIn.candidates) = 3
    /\ rerankIn.top_k = 2
    /\ rerankIn.ce_scores = <<0, 2, 1>>
    /\ IdsOf(rerankOut.ret) = <<rerankIn.candidates[2].chunk_id,
                                rerankIn.candidates[3].chunk_id>>
    /\ rerankOut.ret[1].score = rerankIn.candidates[2].score

\* Indexes of the adapter calls of the given kinds.
CallsOfKind(kinds) == {i \in DOMAIN calls : calls[i] \in kinds}
Highest(S) == CHOOSE x \in S : \A y \in S : y <= x

\* Answer-generation attempts of the DIRECT path: the handler's generation
\* and every improvement.
GenerationAttempts == CallsOfKind({"generate", "improve"})

\* Every reflection so far was the stub's: mean score 2, needs_improvement.
StubAlwaysLow ==
    \A i \in DOMAIN reflections :
        reflections[i] = [relevance |-> JInt(2), accuracy |-> JInt(2),
                          completeness |-> JInt(2),
                          needs_improvement |-> JBool(TRUE)]

ReflectionBoundCase ==
    /\ pc = "done"
    /\ cfg.quality_threshold = DefaultQualityThreshold
    /\ cfg.max_iterations = 2
    /\ StubAlwaysLow

DirectWithCandidates ==
    response.metadata.strategy = "simple" /\ response.sources # <<>>

\* C10 (as stated): with quality_threshold = 4, max_iterations = 2 and a
\* reflection that always says needs_improvement with mean 2, exactly 2
\* generation attempts occur during query and the second attempt's answer
\* is returned.
C10_Original_TwoAttempts ==
    (ReflectionBoundCase /\ DirectWithCandidates) =>
        /\ Cardinality(GenerationAttempts) = 2
        /\ response.answer.call = Highest(GenerationAttempts)

\* C10 (amended): in that case exactly 2 reflections are evaluated and
\* exactly 2 improvement calls are made, and the answer returned is the
\* second improvement's, with no verdict recorded; on the DIRECT path with
\* candidates that is the third generation attempt (the handler's
\* generation, then the two improvements).
C10_TwoIterationsThreeAttempts ==
    ReflectionBoundCase =>
        /\ Len(reflections) = 2
        /\ Cardinality(CallsOfKind({"reflection"})) = 2
        /\ Cardinality(CallsOfKind({"improve"})) = 2
        /\ response.answer = LlmAnswer("improve", Highest(CallsOfKind({"improve"})))
        /\ ~response.metadata.reflection.recorded
        /\ DirectWithCandidates =>
              /\ Cardinality(GenerationAttempts) = 3
              /\ response.answer.call = Highest(GenerationAttempts)

C10_Witness ==
    /\ ReflectionBoundCase
    /\ DirectWithCandidates
    /\ Cardinality(GenerationAttempts) = 3
    /\ response.answer.by = "improve"

\* ------------------------------------------------------------ C11, C12
\* The handler has returned a response without candidates: DIRECT with an
\* empty merged result, or DECOMPOSE where no sub-query found anything (and
\* so no partial answer exists).
HandlerReturned == response.metadata.strategy # None
NoCandidatesFound == HandlerReturned /\ response.sources = <<>>

\* C11: whenever retrieval yields no candidates, query makes no
\* reflection-evaluation and no improvement LLM call.
C11_NoReflectionWithoutCandidates ==
    NoCandidatesFound => CallsOfKind({"reflection", "improve"}) = {}

\* C12: whenever no candidates are found, the answer text query returns is
\* the fixed not-found message, whatever max_iterations, quality_threshold
\* and the reflection verdict are.
C12_NotFoundMessageReturned ==
    (pc = "done" /\ NoCandidatesFound) => response.answer = NotFoundAnswer

C14_ParseFailureNeverRaises ==
    pc = "raised" => calls[Len(calls)] = "failed"

\* ------------------------------------------------------------ C15
\* C15: every ReflectionResult _evaluate_response produces has relevance,
\* accuracy and completeness each an integer in 1..5 and needs_improvement
\* a boolean.
C15_ReflectionFullyPopulated ==
    \A i \in DOMAIN reflections :
        /\ \A f \in {reflections[i].relevance, reflections[i].accuracy,
                     reflections[i].completeness} :
              f.t = "int" /\ f.v \in 1..5
        /\ reflections[i].needs_improvement.t = "bool"

\* ------------------------------------------------------------ C16
\* C16: a failed adapter call (LLM or retriever) ends the query with the
\* exception: it is the last adapter call of the query (no retry, no later
\* call) and query has raised.
C16_AdapterFailureAborts ==
    \A i \in DOMAIN calls :
        calls[i] = "failed" => (i = Len(calls) /\ pc = "raised")

C16_Witness ==
    /\ pc = "raised"
    /\ Len(calls) >= 4
    /\ calls[Len(calls)] = "failed"
    /\ calls[Len(calls) - 1] = "reflection"

\* ------------------------------------------------------------ C17
\* C17: every answer query returns after at least one reflection carries
\* in its metadata the strategy and the reflection record (iteration count
\* and verdict), also when the loop ended at max_iterations.
C17_ReflectionMetadataRecorded ==
    (pc = "done" /\ Len(reflections) > 0) =>
        /\ response.metadata.strategy \in {"simple", "decompose"}
        /\ response.metadata.reflection.recorded

\* ------------------------------------------------------------ C18
\* The highest score among the occurrences of chunk_id id in a list of
\* results that holds it.
MaxScoreOf(results, id) ==
    Highest({results[i].score : i \in {j \in DOMAIN results : results[j].chunk_id = id}})

KeepsMaxScore(kept, seen) ==
    \A i \in DOMAIN kept : kept[i].score = MaxScoreOf(seen, kept[i].chunk_id)

\* C18: in every merge step (MultiQueryRetriever.retrieve, the DIRECT merge
\* of _handle_simple_query, the DECOMPOSE merge of _handle_complex_query)
\* the candidate kept for a chunk_id has the maximum score among all
\* occurrences of that chunk_id in the merged sub-search results.
C18_DedupKeepsMaxScore ==
    /\ multiOut.called => KeepsMaxScore(multiOut.results, multiIn.searches[1])
    /\ pc = "generate" => KeepsMaxScore(response.sources, retrieved)
    /\ response.metadata.strategy = "decompose" =>
          KeepsMaxScore(response.sources, all_sources)

\* ------------------------------------------------------------ C19
NoDuplicateChunkIds(results) ==
    \A i, j \in DOMAIN results :
        results[i].chunk_id = results[j].chunk_id => i = j

\* C19: no candidate list returned by AgenticRAG.query, HybridRetriever or
\* MultiQueryRetriever holds two candidates with the same chunk_id.
C19_NoDuplicateChunkIds ==
    /\ NoDuplicateChunkIds(response.sources)
    /\ hybridOut.called => NoDuplicateChunkIds(hybridOut.results)
    /\ multiOut.called => NoDuplicateChunkIds(multiOut.results)

\* A DECOMPOSE query whose sub-searches found the same chunk more than once
\* has returned its candidates.
C19_Witness ==
    /\ pc = "done"
    /\ response.metadata.strategy = "decompose"
    /\ Len(response.sources) = 2
    /\ Len(all_sources) > 2
    /\ ~NoDuplicateChunkIds(all_sources)

\* ------------------------------------------------------------ C20
\* C20: in HybridRetriever.retrieve the vector search and the lexical
\* search are both in flight before either has returned, and the fusion
\* starts only after both have returned.
C20_SearchesConcurrent ==
    hybridOut.called =>
        LET At(e) == PosIn(hybridOut.trace, e) IN
        /\ At("_bm25_search.call") < At("_vector_search.return")
        /\ At("_vector_search.call") < At("_bm25_search.return")
        /\ At("_reciprocal_rank_fusion.call") > At("_vector_search.return")
        /\ At("_reciprocal_rank_fusion.call") > At("_bm25_search.return")

\* ------------------------------------------------------------ C22
NoAdapterFailure == \A i \in DOMAIN calls : calls[i] # "failed"

\* C22: _reflect_and_improve makes at most max_iterations evaluation calls
\* and at most max_iterations improvement calls, and a query whose adapter
\* calls all return does not end by raising (it goes on to its terminal
\* state).
C22_BoundedReflectionTerminates ==
    /\ Cardinality(CallsOfKind({"reflection"})) <= cfg.max_iterations
    /\ Cardinality(CallsOfKind({"improve"})) <= cfg.max_iterations
    /\ NoAdapterFailure => pc # "raised"

\* ------------------------------------------------------------ C23
\* A verdict as the ReflectionVerdict type has it: integer scores and a
\* boolean needs_improvement.
TypedVerdict(r) ==
    /\ r.relevance.t = "int" /\ r.accuracy.t = "int" /\ r.completeness.t = "int"
    /\ r.needs_improvement.t = "bool"

VerdictPasses(r, quality_threshold) ==
    \/ r.relevance.v + r.accuracy.v + r.completeness.v >= 3 * quality_threshold
    \/ r.needs_improvement = JBool(FALSE)

\* C23: a REFLECT iteration whose verdict has mean >= quality_threshold or
\* needs_improvement false ends the loop at once: same answer, no
\* improvement call, the verdict's scores and the iteration number in the
\* metadata.  Any other verdict is followed by exactly one improvement
\* call, which replaces the answer (and keeps the candidates).
C23_ReflectionPassCondition ==
    [][ /\ (Len(reflections') = Len(reflections) + 1
            /\ TypedVerdict(reflections'[Len(reflections')])) =>
              LET r == reflections'[Len(reflections')] IN
              IF VerdictPasses(r, cfg.quality_threshold)
              THEN /\ pc' = "done"
                   /\ response'.answer = response.answer
                   /\ response'.sources = response.sources
                   /\ response'.metadata.reflection.recorded
                   /\ response'.metadata.reflection.iterations = iteration + 1
                   /\ response'.metadata.reflection.final_scores = r
                   /\ calls' = Append(calls, "reflection")
              ELSE /\ pc' = "improve"
                   /\ response' = response
        /\ (pc = "improve" /\ pc' # "raised") =>
              /\ calls' = Append(calls, "improve")
              /\ response'.answer = LlmAnswer("improve", Len(calls'))
              /\ response'.sources = response.sources
              /\ iteration' = iteration + 1
              /\ pc' = "reflect"
      ]_vars

C23_Witness ==
    /\ pc = "done"
    /\ Len(reflections) = 2
    /\ response.metadata.reflection.recorded
    /\ response.metadata.reflection.iterations = 2
    /\ response.answer.by = "improve"
    /\ Cardinality(CallsOfKind({"improve"})) = 1

\* ------------------------------------------------------------ C27
\* C27: an analysis or reflection response that is a schema-conforming
\* JSON object inside a fenced block yields the same QueryAnalysis /
\* ReflectionResult as the bare JSON object.
C27_FencedJsonTolerated ==
    /\ parsed.analysis = "fenced" =>
          analysis = [search_strategy |-> FencedAnalysis.search_strategy,
                      sub_queries |-> FencedAnalysis.sub_queries]
    /\ (parsed.reflection = "fenced" /\ Len(reflections) > 0) =>
          reflections[Len(reflections)] =
              [relevance |-> LowVerdict.relevance,
               accuracy |-> LowVerdict.accuracy,
               completeness |-> LowVerdict.completeness,
               needs_improvement |-> LowVerdict.needs_improvement]

\* ------------------------------------------------------------ C28
\* The analysis chose DECOMPOSE, so _handle_complex_query runs or has run.
DecomposeChosen ==
    parsed.analysis = "object" /\ analysis.search_strategy = "decompose"

CountOf(kind) == Cardinality(CallsOfKind({kind}))

\* C28: _handle_complex_query loops over [question] when sub_queries is
\* empty and over sub_queries otherwise, makes one retrieval per sub-query
\* in order, and makes exactly one synthesis call iff a partial answer
\* exists; without one it makes no synthesis call and answers with the
\* fixed not-found message.
C28_DecomposeSynthesis ==
    DecomposeChosen =>
        /\ queries = IF analysis.sub_queries = <<>>
                     THEN <<Question>> ELSE analysis.sub_queries
        /\ pc = "sub_retrieve" => CountOf("retrieve") = qi - 1
        /\ pc = "sub_generate" => CountOf("retrieve") = qi
        /\ CountOf("sub_generate") = Len(sub_answers)
        /\ CountOf("synthesis") <= 1
        /\ pc \in {"sub_retrieve", "sub_generate", "synthesize"} =>
              CountOf("synthesis") = 0
        /\ HandlerReturned =>
              /\ CountOf("retrieve") = Len(queries)
              /\ CountOf("synthesis") = 1 <=> sub_answers # <<>>
              /\ CountOf("improve") = 0 =>
                    response.answer = IF sub_answers = <<>>
                                      THEN NotFoundAnswer
                                      ELSE LlmAnswer("synthesis",
                                                     Highest(CallsOfKind({"synthesis"})))

\* The analysis gave no sub-query, the question's own search found nothing.
C28_Witness ==
    /\ DecomposeChosen
    /\ analysis.sub_queries = <<>>
    /\ HandlerReturned
    /\ calls = <<"analysis", "retrieve">>
    /\ response.answer = NotFoundAnswer

\* ------------------------------------------------------------ C29
\* The analysis call has returned a QueryAnalysis.
Analyzed == parsed.analysis \in {"object", "not_json", "fenced"}

\* C29: query runs the DECOMPOSE handler iff the analysis' search_strategy
\* is decompose, the DIRECT handler for every other value (direct,
\* iterative, the parse-failure default), never both, and after the one
\* analysis call.
C29_DispatchRouting ==
    /\ ~Analyzed => \A i \in DOMAIN calls : calls[i] \in {"analysis", "failed"}
    /\ Analyzed =>
          /\ calls[1] = "analysis" /\ CountOf("analysis") = 1
          /\ IF analysis.search_strategy = "decompose"
             THEN /\ CountOf("rewrite") = 0 /\ CountOf("generate") = 0
                  /\ pc \notin {"analyze", "rewrite", "retrieve", "generate"}
                  /\ HandlerReturned => response.metadata.strategy = "decompose"
             ELSE /\ CountOf("sub_generate") = 0 /\ CountOf("synthesis") = 0
                  /\ pc \notin {"analyze", "sub_retrieve", "sub_generate", "synthesize"}
                  /\ HandlerReturned => response.metadata.strategy = "simple"

C29_Witness ==
    /\ Analyzed
    /\ analysis.search_strategy = "iterative"
    /\ pc = "done"
    /\ response.metadata.strategy = "simple"
    /\ CountOf("rewrite") = 1

\* ------------------------------------------------------------ C24
\* C24: a _bm25_search that runs while _build_bm25_index runs never
\* combines the scorer of one snapshot with the chunk list of another: it
\* does not fail on an index, and every result is the chunk its score was
\* computed for.
C24_NoMixedSnapshot ==
    /\ reader.pc # "raised"
    /\ \A i \in DOMAIN reader.results :
          reader.results[i].chunk_id = reader.scorer.corpus[reader.top_indices[i]]

\* ------------------------------------------------------------ C25
\* C25: writes to the vector store after the index was built do not change
\* the index, and only chunks present at the last build appear in what
\* _bm25_search returns.
C25_IndexIsSnapshot ==
    /\ bm25Index.bm25_chunks = builtFrom
    /\ bm25Index.bm25.corpus = builtFrom
    /\ lexOut.called =>
          \A i \in DOMAIN lexOut.results :
              lexOut.results[i].chunk_id \in Range(builtFrom)

\* A search after a write that no rebuild followed.
C25_Witness ==
    /\ lexOut.called
    /\ Len(builtFrom) = 1
    /\ Len(store) = 3
    /\ lexOut.top_k = 2
    /\ IdsOf(lexOut.results) = builtFrom

\* ------------------------------------------------------------ C26
\* The raw BM25 score of the i-th result and its position in the corpus.
CorpusPos(i) == PosIn(builtFrom, lexOut.results[i].chunk_id)
RawScore(i) == lexOut.bm25_scores[CorpusPos(i)]

\* C26: _bm25_search returns its candidates by BM25 score descending,
\* documents of equal score in corpus order, and no document left out
\* would sort before a returned one.
C26_LexicalOrderStable ==
    lexOut.called =>
        /\ \A i, j \in DOMAIN lexOut.results :
              i < j => \/ RawScore(i) > RawScore(j)
                       \/ RawScore(i) = RawScore(j) /\ CorpusPos(i) < CorpusPos(j)
        /\ \A i \in DOMAIN lexOut.results :
              /\ CorpusPos(i) > 0
              /\ lexOut.results[i].score = NormalizedBm25(RawScore(i))
              /\ \A p \in DOMAIN builtFrom :
                    (\A j \in DOMAIN lexOut.results : CorpusPos(j) # p) =>
                        \/ RawScore(i) > lexOut.bm25_scores[p]
                        \/ RawScore(i) = lexOut.bm25_scores[p] /\ CorpusPos(i) < p

C26_Witness ==
    /\ lexOut.called
    /\ Len(builtFrom) = 3
    /\ lexOut.bm25_scores = <<0, 1, 1>>
    /\ lexOut.top_k = 3
    /\ IdsOf(lexOut.results) = <<builtFrom[2], builtFrom[3], builtFrom[1]>>

\* ------------------------------------------------------------ C30
\* C30: on an index built from a non-empty corpus _bm25_search(query, k)
\* returns exactly min(k, corpus size) candidates, documents of score 0
\* included; from an empty corpus it returns an empty list.
C30_LexicalResultCount ==
    lexOut.called =>
        /\ Len(lexOut.results) = Min(lexOut.top_k, Len(builtFrom))
        /\ lexOut.results = <<>> => builtFrom = <<>>

C30_Witness ==
    /\ lexOut.called
    /\ Len(builtFrom) = 3
    /\ lexOut.top_k = 2
    /\ \A p \in DOMAIN lexOut.bm25_scores : lexOut.bm25_scores[p] = 0
    /\ Len(lexOut.results) = 2

\* ------------------------------------------------------------ C21
\* C21: when a category filter is supplied to a retrieval, every candidate
\* of the result satisfies it.
C21_FilterSatisfied ==
    (multiOut.called /\ multiIn.category_filter # None) =>
        \A i \in DOMAIN multiOut.results :
            CategoryOf(multiOut.results[i].chunk_id) = multiIn.category_filter
====
